---- MODULE Spec2Model ----
(***************************************************************************)
(* A model of dashboard.py, the production dashboard of an animated        *)
(* series: series discovery, the memoized catalog loader, the artifact     *)
(* prober, the status resolver, the filters of the clips page and the      *)
(* scenario segmentation.                                                  *)
(*                                                                         *)
(* The filesystem is a function from the paths that exist to their         *)
(* entries.  A path is a sequence of names below BASE_DIR; a name is the   *)
(* sequence of the pieces an f-string puts together, so that               *)
(* f"{clip_id}_first.png" is <<clip_id, "_first", ".png">> and a glob of   *)
(* "*.mp4" looks at the last piece.                                        *)
(***************************************************************************)
EXTENDS Integers, Sequences, FiniteSets, TLC

VARIABLES
    disk,       \* the filesystem: path -> [kind, data]
    cache,      \* st.cache_data: the memoized results of the cached functions
    session,    \* st.session_state
    out,        \* what the script run under observation rendered
    probe       \* what the prober and the resolver returned when called directly

vars == <<disk, cache, session, out, probe>>

(***************************************************************************)
(* Bounds of the model.                                                    *)
(***************************************************************************)
\* numbered takes a variant group directory may hold
MaxTakes == 2

(***************************************************************************)
(* Paths.                                                                  *)
(***************************************************************************)
Last(s) == s[Len(s)]

Parent(p) == SubSeq(p, 1, Len(p) - 1)

\* BASE_DIR / "series"
SERIES_DIR == << <<"series">> >>

\* the paths of the first series, whatever directory is asked for
series_paths_of_first(series_dir) ==
    LET first == Append(SubSeq(series_dir, 1, Len(series_dir) - 1), <<"ep01">>)
    IN  [ prompts  |-> Append(first, <<"prompts", ".json">>),
          frames   |-> Append(first, <<"frames">>),
          clips    |-> Append(first, <<"clips">>),
          scenario |-> Append(first, <<"scenario", ".txt">>) ]

\* d / "prompts.json", d / "frames", d / "clips", d / "scenario.txt"
series_paths(series_dir) ==
    [ prompts  |-> Append(series_dir, <<"prompts", ".json">>),
      frames   |-> Append(series_dir, <<"frames">>),
      clips    |-> Append(series_dir, <<"clips">>),
      scenario |-> Append(series_dir, <<"scenario", ".txt">>) ]

\* Path.exists()
Exists(d, p) == p \in DOMAIN d

\* Path.is_dir()
IsDir(d, p) == p \in DOMAIN d /\ d[p].kind = "dir"

\* the entries of directory dir whose name ends with the suffix: dir.glob("*" + suffix)
Glob(d, dir, suffix) ==
    { p \in DOMAIN d : Len(p) = Len(dir) + 1 /\ Parent(p) = dir /\ Last(Last(p)) = suffix }

\* the stems of the numbered takes, in the order sorted() gives them
TakeStems == <<"take1", "take2", "take3", "take4">>

TakeName(i) == <<TakeStems[i], ".mp4">>

TakeRank(name) == CHOOSE i \in 1..Len(TakeStems) : TakeStems[i] = name[1]

\* sorted(paths): the paths of one directory in the order of their names
RECURSIVE Sorted(_)
Sorted(paths) ==
    IF paths = {} THEN <<>>
    ELSE LET first == CHOOSE p \in paths :
                          \A q \in paths : TakeRank(Last(p)) <= TakeRank(Last(q))
         IN  <<first>> \o Sorted(paths \ {first})

(***************************************************************************)
(* Artifact prober and status resolver.                                    *)
(***************************************************************************)
\* result[key] = sorted(sub.glob("*.mp4")) for a variant group directory
GroupVideos(d, clip_dir, key) ==
    IF IsDir(d, clip_dir) /\ IsDir(d, Append(clip_dir, <<key>>))
    THEN Sorted(Glob(d, Append(clip_dir, <<key>>), ".mp4"))
    ELSE <<>>

\* the variant with the fallback taken whenever the legacy file exists
get_video_variants_always_legacy(d, clip_id, clips_dir) ==
    LET clip_dir == Append(clips_dir, <<clip_id>>)
        old_clip == Append(clips_dir, <<clip_id, "_clip", ".mp4">>)
        a == GroupVideos(d, clip_dir, "prompt_a")
        b == GroupVideos(d, clip_dir, "prompt_b")
    IN  IF Exists(d, old_clip)
        THEN [prompt_a |-> <<old_clip>>, prompt_b |-> b]
        ELSE [prompt_a |-> a, prompt_b |-> b]

\* the variant that knows only the per-clip directory layout
get_video_variants_no_legacy(d, clip_id, clips_dir) ==
    LET clip_dir == Append(clips_dir, <<clip_id>>)
    IN  [ prompt_a |-> GroupVideos(d, clip_dir, "prompt_a"),
          prompt_b |-> GroupVideos(d, clip_dir, "prompt_b") ]

get_video_variants(d, clip_id, clips_dir) ==
    LET clip_dir == Append(clips_dir, <<clip_id>>)
        old_clip == Append(clips_dir, <<clip_id, "_clip", ".mp4">>)
        a == GroupVideos(d, clip_dir, "prompt_a")
        b == GroupVideos(d, clip_dir, "prompt_b")
    IN  IF Exists(d, old_clip) /\ a = <<>> /\ b = <<>>
        THEN [prompt_a |-> <<old_clip>>, prompt_b |-> b]
        ELSE [prompt_a |-> a, prompt_b |-> b]

\* the legacy policy: done only with both frames and a video
get_status_all_three(d, clip_id, frames_dir, clips_dir) ==
    LET has_first  == Exists(d, Append(frames_dir, <<clip_id, "_first", ".png">>))
        has_last   == Exists(d, Append(frames_dir, <<clip_id, "_last", ".png">>))
        variants   == get_video_variants(d, clip_id, clips_dir)
        has_videos == variants.prompt_a # <<>> \/ variants.prompt_b # <<>>
    IN  IF has_first /\ has_last /\ has_videos THEN "done"
        ELSE IF has_first \/ has_last \/ has_videos THEN "partial"
        ELSE "todo"

\* a status kept from the start of the process, when nothing was generated
get_status_stored(d, clip_id, frames_dir, clips_dir) == "todo"

get_status(d, clip_id, frames_dir, clips_dir) ==
    LET has_first  == Exists(d, Append(frames_dir, <<clip_id, "_first", ".png">>))
        has_last   == Exists(d, Append(frames_dir, <<clip_id, "_last", ".png">>))
        variants   == get_video_variants(d, clip_id, clips_dir)
        has_videos == variants.prompt_a # <<>> \/ variants.prompt_b # <<>>
    IN  IF has_videos THEN "done"
        ELSE IF has_first \/ has_last THEN "partial"
        ELSE "todo"

(***************************************************************************)
(* Series discovery.                                                       *)
(***************************************************************************)
\* the directory names series/ may hold, in the order sorted() gives them
SeriesDirNames == <<"ep01", "ep02">>

SeriesDir(name) == Append(SERIES_DIR, <<name>>)

\* json.load(f): the value a JSON file holds
json_load(d, p) == d[p].data[1]

\* open(p) or json.load(f) raises: p is a directory, or the file holds no
\* JSON value
json_raises(d, p) == d[p].kind # "file" \/ d[p].data = <<>>

\* result[key] = value on a dict that keeps insertion order
DictPut(result, key, value) ==
    IF \E i \in 1..Len(result) : result[i].id = key
    THEN [ i \in 1..Len(result) |-> IF result[i].id = key THEN value ELSE result[i] ]
    ELSE Append(result, value)

\* the loop of discover_series over sorted(SERIES_DIR.iterdir()), from the i-th name on
RECURSIVE ScanSeries(_, _, _)
ScanSeries(d, i, result) ==
    IF i > Len(SeriesDirNames) THEN result
    ELSE LET dir       == SeriesDir(SeriesDirNames[i])
             meta_file == Append(dir, <<"meta", ".json">>)
         IN  IF IsDir(d, dir) /\ Exists(d, meta_file)
             THEN LET meta == [ id    |-> json_load(d, meta_file).id,
                                title |-> json_load(d, meta_file).title,
                                dir   |-> dir ]
                  IN  ScanSeries(d, i + 1, DictPut(result, meta.id, meta))
             ELSE ScanSeries(d, i + 1, result)

\* {id: meta} for each valid series, as the sequence of its values in key order
discover_series(d) ==
    IF ~Exists(d, SERIES_DIR) THEN <<>> ELSE ScanSeries(d, 1, <<>>)

\* discover_series has no handler round open and json.load (lines 38-39):
\* one descriptor that cannot be read makes the whole scan raise
discover_series_raises(d) ==
    /\ Exists(d, SERIES_DIR)
    /\ \E i \in 1..Len(SeriesDirNames) :
         LET dir       == SeriesDir(SeriesDirNames[i])
             meta_file == Append(dir, <<"meta", ".json">>)
         IN  IsDir(d, dir) /\ Exists(d, meta_file) /\ json_raises(d, meta_file)

(***************************************************************************)
(* The catalog loader and its memoization.                                 *)
(***************************************************************************)
\* the body of load_clips
load_clips(d, prompts_file) ==
    IF ~Exists(d, prompts_file) THEN <<>> ELSE json_load(d, prompts_file)

\* the body of load_clips raises (lines 66-67)
load_clips_raises(d, prompts_file) ==
    Exists(d, prompts_file) /\ json_raises(d, prompts_file)

\* a call of the memoized load_clips raises: only the body can, and a call
\* that raised leaves nothing in the memo
Memoized_raises(d, memo, prompts_file) ==
    prompts_file \notin DOMAIN memo /\ load_clips_raises(d, prompts_file)

\* a memo that forgets which path a catalog was read from
Memoized_any_key(d, memo, prompts_file) ==
    IF DOMAIN memo # {}
    THEN memo[CHOOSE k \in DOMAIN memo : TRUE]
    ELSE load_clips(d, prompts_file)

\* @st.cache_data on load_clips: the value a call returns; the key is the argument
Memoized(d, memo, prompts_file) ==
    IF prompts_file \in DOMAIN memo
    THEN memo[prompts_file]
    ELSE load_clips(d, prompts_file)

\* @st.cache_data on load_clips: the memo after the call
Memoize(d, memo, prompts_file) ==
    IF prompts_file \in DOMAIN memo
    THEN memo
    ELSE [ k \in DOMAIN memo \cup {prompts_file} |->
             IF k = prompts_file THEN load_clips(d, prompts_file) ELSE memo[k] ]

(***************************************************************************)
(* format_clip_id.  A clip id is a string; ClipIdChars gives the           *)
(* characters of the ids the catalogs hold.                                *)
(***************************************************************************)
ClipIdChars(clip_id) ==
    CASE clip_id = "S01_A" -> <<"S", "0", "1", "_", "A">>
      [] clip_id = "S01_B" -> <<"S", "0", "1", "_", "B">>
      [] clip_id = "S02_A" -> <<"S", "0", "2", "_", "A">>
      [] clip_id = "S12_c" -> <<"S", "1", "2", "_", "c">>
      [] clip_id = "intro" -> <<"i", "n", "t", "r", "o">>
      [] clip_id = "S03"   -> <<"S", "0", "3">>
      [] clip_id = "S03_"  -> <<"S", "0", "3", "_">>
      [] clip_id = "S03_AB" -> <<"S", "0", "3", "_", "A", "B">>
      [] clip_id = "_A"    -> <<"_", "A">>

\* str.split(sep) for a separator of one character, with cur the piece being read
RECURSIVE SplitOn(_, _, _)
SplitOn(text, sep, cur) ==
    IF text = <<>> THEN <<cur>>
    ELSE IF text[1] = sep THEN <<cur>> \o SplitOn(Tail(text), sep, <<>>)
    ELSE SplitOn(Tail(text), sep, Append(cur, text[1]))

DigitChars == <<"0", "1", "2", "3", "4", "5", "6", "7", "8", "9">>

UpperAlphabet ==
    <<"A", "B", "C", "D", "E", "F", "G", "H", "I", "J", "K", "L", "M",
      "N", "O", "P", "Q", "R", "S", "T", "U", "V", "W", "X", "Y", "Z">>

LowerAlphabet ==
    <<"a", "b", "c", "d", "e", "f", "g", "h", "i", "j", "k", "l", "m",
      "n", "o", "p", "q", "r", "s", "t", "u", "v", "w", "x", "y", "z">>

IndexOf(seq, x) == CHOOSE i \in 1..Len(seq) : seq[i] = x

\* ord(ch) for the characters of clip ids
ord(ch) ==
    IF \E i \in 1..Len(UpperAlphabet) : UpperAlphabet[i] = ch THEN 64 + IndexOf(UpperAlphabet, ch)
    ELSE IF \E i \in 1..Len(LowerAlphabet) : LowerAlphabet[i] = ch THEN 96 + IndexOf(LowerAlphabet, ch)
    ELSE IF \E i \in 1..Len(DigitChars) : DigitChars[i] = ch THEN 47 + IndexOf(DigitChars, ch)
    ELSE 95

\* int(s) raises ValueError: over letters, digits and no other character,
\* s is empty or holds a character that is no digit
int_raises(s) ==
    s = <<>> \/ \E i \in 1..Len(s) : \A k \in 1..Len(DigitChars) : DigitChars[k] # s[i]

\* int(s) for a string of digits
RECURSIVE int(_)
int(s) ==
    IF s = <<>> THEN 0
    ELSE 10 * int(SubSeq(s, 1, Len(s) - 1)) + (IndexOf(DigitChars, s[Len(s)]) - 1)

\* s[1:]
FromSecond(s) == IF s = <<>> THEN <<>> ELSE Tail(s)

\* lines 146-149: the scene number and the part number of the title, or the
\* exception the conversion raises
format_clip_id(clip_id) ==
    LET parts == SplitOn(ClipIdChars(clip_id), "_", <<>>)
    IN  IF int_raises(FromSecond(parts[1]))
        THEN [raised |-> "ValueError", scene_num |-> 0, part_num |-> 0]
        ELSE IF Len(parts) < 2
        THEN [raised |-> "IndexError", scene_num |-> 0, part_num |-> 0]
        ELSE IF Len(parts[2]) # 1
        THEN [raised |-> "TypeError", scene_num |-> 0, part_num |-> 0]
        ELSE [ raised    |-> "no",
               scene_num |-> int(FromSecond(parts[1])),
               part_num  |-> ord(parts[2][1]) - ord("A") + 1 ]

\* an exception left the page function: Streamlit stops the script run and
\* shows the traceback in place of the rest of the page
Raised(where, what) == [page |-> "exception", where |-> where, what |-> what]

\* the first clip of the sequence whose title cannot be made, 0 if there is none
FirstBadTitle(shown) ==
    IF \E i \in 1..Len(shown) : format_clip_id(shown[i].clip_id).raised # "no"
    THEN CHOOSE i \in 1..Len(shown) :
           /\ format_clip_id(shown[i].clip_id).raised # "no"
           /\ \A j \in 1..(i - 1) : format_clip_id(shown[j].clip_id).raised = "no"
    ELSE 0

(***************************************************************************)
(* The clips page.                                                         *)
(***************************************************************************)
\* "Vse" stands for the option of every selectbox that matches all
ALL == "Vse"

\* the labels of the status selectbox and the status each stands for
status_key(selected_status) ==
    CASE selected_status = "Gotovo" -> "done"
      [] selected_status = "Chastichno" -> "partial"
      [] selected_status = "Ne nachato" -> "todo"

status_options == {ALL, "Gotovo", "Chastichno", "Ne nachato"}

scene_options(clips) == {ALL} \cup { clips[i].scene_id : i \in 1..Len(clips) }

char_options(clips) ==
    {ALL} \cup UNION { { clips[i].characters[j] : j \in 1..Len(clips[i].characters) } : i \in 1..Len(clips) }

loc_options(clips) == {ALL} \cup { clips[i].location : i \in 1..Len(clips) }

\* what the four selectboxes can be set to for a catalog
Selections(clips) ==
    [ scene : scene_options(clips), status : status_options,
      char : char_options(clips), loc : loc_options(clips) ]

\* the filter with its test turned round
FilterScene_other_scenes(filtered, selected_scene) ==
    IF selected_scene # ALL
    THEN LET keep(c) == c.scene_id # selected_scene IN SelectSeq(filtered, keep)
    ELSE filtered

\* [c for c in filtered if c["scene_id"] == selected_scene]
FilterScene(filtered, selected_scene) ==
    IF selected_scene # ALL
    THEN LET keep(c) == c.scene_id = selected_scene IN SelectSeq(filtered, keep)
    ELSE filtered

\* the filter that compares the status with the label of the selectbox
FilterStatus_by_label(d, filtered, selected_status, frames_dir, clips_dir) ==
    IF selected_status # ALL
    THEN LET keep(c) == get_status(d, c.clip_id, frames_dir, clips_dir) = selected_status
         IN  SelectSeq(filtered, keep)
    ELSE filtered

\* [c for c in filtered if get_status(c["clip_id"], frames_dir, clips_dir) == status_key]
FilterStatus(d, filtered, selected_status, frames_dir, clips_dir) ==
    IF selected_status # ALL
    THEN LET keep(c) == get_status(d, c.clip_id, frames_dir, clips_dir) = status_key(selected_status)
         IN  SelectSeq(filtered, keep)
    ELSE filtered

\* the filter that asks for the character to be the only one of the clip
FilterChar_only(filtered, selected_char) ==
    IF selected_char # ALL
    THEN LET keep(c) == c.characters = <<selected_char>> IN SelectSeq(filtered, keep)
    ELSE filtered

\* [c for c in filtered if selected_char in c["characters"]]
FilterChar(filtered, selected_char) ==
    IF selected_char # ALL
    THEN LET keep(c) == \E j \in 1..Len(c.characters) : c.characters[j] = selected_char
         IN  SelectSeq(filtered, keep)
    ELSE filtered

\* [c for c in filtered if c["location"] == selected_loc]
FilterLoc(filtered, selected_loc) ==
    IF selected_loc # ALL
    THEN LET keep(c) == c.location = selected_loc IN SelectSeq(filtered, keep)
    ELSE filtered

\* the filters put together as alternatives: a clip stays if it passes one
\* of the selections made
ApplyFilters_either(d, clips, sel, frames_dir, clips_dir) ==
    LET keep(c) ==
          \/ sel = [scene |-> ALL, status |-> ALL, char |-> ALL, loc |-> ALL]
          \/ sel.scene # ALL /\ FilterScene(<<c>>, sel.scene) # <<>>
          \/ sel.status # ALL /\ FilterStatus(d, <<c>>, sel.status, frames_dir, clips_dir) # <<>>
          \/ sel.char # ALL /\ FilterChar(<<c>>, sel.char) # <<>>
          \/ sel.loc # ALL /\ FilterLoc(<<c>>, sel.loc) # <<>>
    IN  SelectSeq(clips, keep)

\* the filters applied in the order of the page
ApplyFilters(d, clips, sel, frames_dir, clips_dir) ==
    FilterLoc(
        FilterChar(
            FilterStatus(d, FilterScene(clips, sel.scene), sel.status, frames_dir, clips_dir),
            sel.char),
        sel.loc)

\* all_statuses.count(x)
Count(statuses, x) == Cardinality({ i \in 1..Len(statuses) : statuses[i] = x })

RECURSIVE SumSeq(_)
SumSeq(s) == IF s = <<>> THEN 0 ELSE s[1] + SumSeq(Tail(s))

\* done_count / total if total else 0, as a fraction
Progress(done_count, total) ==
    IF total # 0 THEN [num |-> done_count, den |-> total] ELSE [num |-> 0, den |-> 1]

\* what page_clips puts on the page for the catalog clips and the selection sel
page_clips(d, clips, sel, sess) ==
    LET frames_dir   == sess.series_paths.frames
        clips_dir    == sess.series_paths.clips
        filtered     == ApplyFilters(d, clips, sel, frames_dir, clips_dir)
        all_statuses == [ i \in 1..Len(clips) |-> get_status(d, clips[i].clip_id, frames_dir, clips_dir) ]
        done_count   == Count(all_statuses, "done")
        total        == Len(clips)
        bad          == FirstBadTitle(filtered)
    IN  IF bad # 0
        THEN Raised("page_clips", format_clip_id(filtered[bad].clip_id).raised)
        ELSE
        [ page          |-> "Klipy",
          series        |-> sess.series_meta.id,
          clips         |-> clips,
          sel           |-> sel,
          filtered      |-> filtered,
          all_statuses  |-> all_statuses,
          done_count    |-> done_count,
          partial_count |-> Count(all_statuses, "partial"),
          total         |-> total,
          progress      |-> Progress(done_count, total),
          n_scenes      |-> Cardinality(scene_options(clips) \ {ALL}),
          done_dur      |-> SumSeq([ i \in 1..Len(clips) |->
                                      IF all_statuses[i] = "done" THEN clips[i].veo_duration ELSE 0 ]),
          no_clips_info |-> filtered = <<>>,
          cards         |-> [ i \in 1..Len(filtered) |->
                                [ clip_id |-> filtered[i].clip_id,
                                  title   |-> format_clip_id(filtered[i].clip_id),
                                  status  |-> get_status(d, filtered[i].clip_id, frames_dir, clips_dir) ] ] ]

(***************************************************************************)
(* The timeline page.                                                      *)
(***************************************************************************)
page_timeline(d, clips, sess) ==
    LET frames_dir == sess.series_paths.frames
        clips_dir  == sess.series_paths.clips
        bad        == FirstBadTitle(clips)
    IN  IF bad # 0
        THEN Raised("page_timeline", format_clip_id(clips[bad].clip_id).raised)
        ELSE
        [ page   |-> "Taimlain",
          series |-> sess.series_meta.id,
          clips  |-> clips,
          rows   |-> [ i \in 1..Len(clips) |->
                        LET variants == get_video_variants(d, clips[i].clip_id, clips_dir)
                        IN  [ clip_id |-> clips[i].clip_id,
                              title   |-> format_clip_id(clips[i].clip_id),
                              status  |-> get_status(d, clips[i].clip_id, frames_dir, clips_dir),
                              dur     |-> clips[i].veo_duration,
                              n_vids  |-> Len(variants.prompt_a \o variants.prompt_b) ] ] ]

(***************************************************************************)
(* The scenario page.  A text is a sequence of characters, each a string;  *)
(* the Cyrillic capitals of the scene keyword are written [ES] [TSE] [IE]  *)
(* [EN] [A].                                                               *)
(***************************************************************************)
NL == "\n"

Whitespace == {" ", "\t", "\r", NL}

UpperLetters ==
    { "A", "B", "C", "D", "E", "F", "G", "H", "I", "J", "K", "L", "M", "N", "O", "P", "Q",
      "R", "S", "T", "U", "V", "W", "X", "Y", "Z", "[ES]", "[TSE]", "[IE]", "[EN]", "[A]" }

LowerLetters ==
    { "a", "b", "c", "d", "e", "f", "g", "h", "i", "j", "k", "l", "m", "n", "o", "p", "q",
      "r", "s", "t", "u", "v", "w", "x", "y", "z" }

\* the scene keyword of the scenario files
SCENE_KEYWORD == <<"[ES]", "[TSE]", "[IE]", "[EN]", "[A]">>

INT_SLUG == <<"I", "N", "T", ".">>

EXT_SLUG == <<"E", "X", "T", ".">>

\* str.lstrip() and str.strip()
RECURSIVE lstrip(_)
lstrip(s) == IF s # <<>> /\ s[1] \in Whitespace THEN lstrip(Tail(s)) ELSE s

RECURSIVE rstrip(_)
rstrip(s) == IF s # <<>> /\ s[Len(s)] \in Whitespace THEN rstrip(SubSeq(s, 1, Len(s) - 1)) ELSE s

strip(s) == rstrip(lstrip(s))

\* str.startswith(prefix)
startswith(s, prefix) == Len(s) >= Len(prefix) /\ SubSeq(s, 1, Len(prefix)) = prefix

\* str.isupper(): at least one cased character and no lower-case one
isupper(s) ==
    /\ \E i \in 1..Len(s) : s[i] \in UpperLetters
    /\ \A i \in 1..Len(s) : s[i] \notin LowerLetters

\* text.split("\n"), with cur the piece being read
RECURSIVE SplitFrom(_, _)
SplitFrom(text, cur) ==
    IF text = <<>> THEN <<cur>>
    ELSE IF text[1] = NL THEN <<cur>> \o SplitFrom(Tail(text), <<>>)
    ELSE SplitFrom(Tail(text), Append(cur, text[1]))

split_lines(text) == SplitFrom(text, <<>>)

\* "\n".join(lines)
RECURSIVE join_lines(_)
join_lines(lines) ==
    IF lines = <<>> THEN <<>>
    ELSE IF Len(lines) = 1 THEN lines[1]
    ELSE lines[1] \o <<NL>> \o join_lines(Tail(lines))

\* a header test that forgets the upper-case rule
is_boundary_keywords_only(line) ==
    LET stripped == strip(line)
    IN  /\ stripped # <<>>
        /\ \/ startswith(stripped, SCENE_KEYWORD)
           \/ startswith(stripped, INT_SLUG)
           \/ startswith(stripped, EXT_SLUG)

\* a header test on the line as it is, not on its stripped text
is_boundary_unstripped(line) ==
    /\ line # <<>>
    /\ \/ startswith(line, SCENE_KEYWORD)
       \/ startswith(line, INT_SLUG)
       \/ startswith(line, EXT_SLUG)
       \/ (isupper(line) /\ Len(line) > 10)

\* the condition of lines 591-596: the line opens a new block
is_boundary(line) ==
    LET stripped == strip(line)
    IN  /\ stripped # <<>>
        /\ \/ startswith(stripped, SCENE_KEYWORD)
           \/ startswith(stripped, INT_SLUG)
           \/ startswith(stripped, EXT_SLUG)
           \/ (isupper(stripped) /\ Len(stripped) > 10)

\* the loop of lines 589-601 from the i-th line on
RECURSIVE SegmentFrom(_, _, _, _)
SegmentFrom(lines, i, current_block, blocks) ==
    IF i > Len(lines)
    THEN IF current_block # <<>> THEN Append(blocks, join_lines(current_block)) ELSE blocks
    ELSE IF is_boundary(lines[i])
         THEN SegmentFrom(lines, i + 1, <<lines[i]>>,
                          IF current_block # <<>>
                          THEN Append(blocks, join_lines(current_block))
                          ELSE blocks)
         ELSE SegmentFrom(lines, i + 1, Append(current_block, lines[i]), blocks)

\* lines 586-603: the blocks of a scenario text
segment(text) == SegmentFrom(split_lines(text), 1, <<>>, <<>>)

\* first_line[:80]
Truncate(s, n) == IF Len(s) > n THEN SubSeq(s, 1, n) ELSE s

\* block.strip().split("\n")[0].strip()
first_line(block) == strip(split_lines(strip(block))[1])

\* the titles of the expanders the page opens, one per block with a first line
Expanders(blocks) ==
    IF Len(blocks) > 1
    THEN LET shown(b) == first_line(b) # <<>>
             kept == SelectSeq(blocks, shown)
         IN  [ i \in 1..Len(kept) |-> Truncate(first_line(kept[i]), 80) ]
    ELSE <<>>

page_scenario(d, sess) ==
    LET scenario_file == sess.series_paths.scenario
    IN  IF Exists(d, scenario_file)
        THEN LET text == d[scenario_file].data[1]
             IN  [ page      |-> "Stsenarii",
                   series    |-> sess.series_meta.id,
                   found     |-> TRUE,
                   text      |-> text,
                   blocks    |-> segment(text),
                   expanders |-> Expanders(segment(text)) ]
        ELSE [ page      |-> "Stsenarii",
               series    |-> sess.series_meta.id,
               found     |-> FALSE,
               text      |-> <<>>,
               blocks    |-> <<>>,
               expanders |-> <<>> ]

(***************************************************************************)
(* The references page.                                                    *)
(***************************************************************************)
CHARS_DIR == << <<"characters">> >>

LOCS_DIR == << <<"locations">> >>

page_references(d, sess) ==
    [ page        |-> "Referensy",
      series      |-> sess.series_meta.id,
      chars_found |-> Exists(d, CHARS_DIR),
      locs_found  |-> Exists(d, LOCS_DIR) ]

(***************************************************************************)
(* main: one run of the script, from the series selector to the page.      *)
(***************************************************************************)
Pages == {"Klipy", "Taimlain", "Stsenarii", "Referensy"}

\* every selectbox of the clips page left on its first option
NoFilter == [scene |-> ALL, status |-> ALL, char |-> ALL, loc |-> ALL]

\* @st.cache_data on discover_series: the value a call returns
all_series_of(d, c) == IF c.series # <<>> THEN c.series[1] ELSE discover_series(d)

\* one run in which the user picks a series, one of the pages and, when
\* filters is TRUE, any option of the four selectboxes of the clips page
main(pages, filters) ==
    IF cache.series = <<>> /\ discover_series_raises(disk)
    THEN /\ out' = Raised("discover_series", "json.load")
         /\ UNCHANGED <<disk, cache, session, probe>>
    ELSE
    LET all_series == all_series_of(disk, cache)
    IN  IF all_series = <<>>
        THEN /\ out' = [page |-> "no_series"]
             /\ cache' = [cache EXCEPT !.series = <<all_series>>]
             /\ UNCHANGED <<disk, session, probe>>
        ELSE \E i \in 1..Len(all_series) :
               LET series_meta == all_series[i]
                   sess  == [ series_meta  |-> series_meta,
                              series_paths |-> series_paths(series_meta.dir) ]
                   clips == Memoized(disk, cache.clips, sess.series_paths.prompts)
                   loaded == [ series |-> <<all_series>>,
                               clips  |-> Memoize(disk, cache.clips, sess.series_paths.prompts) ]
                   discovered == [cache EXCEPT !.series = <<all_series>>]
                   unreadable == Memoized_raises(disk, cache.clips, sess.series_paths.prompts)
               IN  /\ session' = sess
                   /\ UNCHANGED <<disk, probe>>
                   /\ \/ /\ "Klipy" \in pages
                         /\ IF unreadable
                            THEN /\ out' = Raised("load_clips", "json.load")
                                 /\ cache' = discovered
                            ELSE /\ \E sel \in (IF filters THEN Selections(clips) ELSE {NoFilter}) :
                                      out' = page_clips(disk, clips, sel, sess)
                                 /\ cache' = loaded
                      \/ /\ "Taimlain" \in pages
                         /\ IF unreadable
                            THEN /\ out' = Raised("load_clips", "json.load")
                                 /\ cache' = discovered
                            ELSE /\ out' = page_timeline(disk, clips, sess)
                                 /\ cache' = loaded
                      \/ /\ "Stsenarii" \in pages
                         /\ out' = page_scenario(disk, sess)
                         /\ cache' = discovered
                      \/ /\ "Referensy" \in pages
                         /\ out' = page_references(disk, sess)
                         /\ cache' = discovered

(***************************************************************************)
(* The world outside the program: files and directories come and go.       *)
(***************************************************************************)
Dir == [kind |-> "dir", data |-> <<>>]

\* a file whose content the program never reads
File == [kind |-> "file", data |-> <<>>]

HasChildren(d, p) == \E q \in DOMAIN d : Len(q) = Len(p) + 1 /\ Parent(q) = p

WithEntry(d, p, e) == [q \in DOMAIN d \cup {p} |-> IF q = p THEN e ELSE d[q]]

Without(d, p) == [q \in DOMAIN d \ {p} |-> d[q]]

NoRender == [page |-> "none"]

NoProbe == [clip |-> "none"]

\* something outside creates p as one of the entries the world has for it;
\* the script run under observation is over
EnvCreate(world, p) ==
    /\ p \notin DOMAIN disk
    /\ IsDir(disk, Parent(p))
    /\ \E w \in world :
         /\ w.path = p
         /\ disk' = WithEntry(disk, p, w.entry)
    /\ out' = NoRender
    /\ probe' = NoProbe
    /\ UNCHANGED <<cache, session>>

\* something outside removes the file or the empty directory p
EnvRemove(p) ==
    /\ p \in DOMAIN disk
    /\ ~HasChildren(disk, p)
    /\ disk' = Without(disk, p)
    /\ out' = NoRender
    /\ probe' = NoProbe
    /\ UNCHANGED <<cache, session>>

(***************************************************************************)
(* The prober and the resolver called on one clip.                         *)
(***************************************************************************)
ProbeClip == "S01_A"

ProbeSeries == SeriesDir("ep01")

\* every path the prober looks at for the clip, with the kinds it may have
ProbeWorld ==
    LET sp       == series_paths(ProbeSeries)
        clip_dir == Append(sp.clips, <<ProbeClip>>)
        group(k) == Append(clip_dir, <<k>>)
        inside(k) == { [path |-> Append(group(k), TakeName(i)), entry |-> File] : i \in 1..MaxTakes }
                     \cup { [path |-> Append(group(k), <<"notes", ".txt">>), entry |-> File] }
    IN  { [path |-> Append(sp.frames, <<ProbeClip, "_first", ".png">>), entry |-> File],
          [path |-> Append(sp.frames, <<ProbeClip, "_last", ".png">>), entry |-> File],
          [path |-> Append(sp.clips, <<ProbeClip, "_clip", ".mp4">>), entry |-> File],
          [path |-> clip_dir, entry |-> Dir],
          [path |-> clip_dir, entry |-> File],
          [path |-> group("prompt_a"), entry |-> Dir],
          [path |-> group("prompt_a"), entry |-> File],
          [path |-> group("prompt_b"), entry |-> Dir],
          [path |-> group("prompt_b"), entry |-> File] }
        \cup inside("prompt_a") \cup inside("prompt_b")

Probe(clip_id) ==
    LET sp == series_paths(ProbeSeries)
    IN  /\ probe' = [ clip     |-> clip_id,
                      variants |-> get_video_variants(disk, clip_id, sp.clips),
                      status   |-> get_status(disk, clip_id, sp.frames, sp.clips) ]
        /\ UNCHANGED <<disk, cache, session, out>>

\* a series directory with its frames and clips directories, nothing generated yet
EmptySeries(name) ==
    LET sp == series_paths(SeriesDir(name))
    IN  { [path |-> SeriesDir(name), entry |-> Dir],
          [path |-> sp.frames, entry |-> Dir],
          [path |-> sp.clips, entry |-> Dir] }

\* the paths a set of files and directories lies at
PathsOf(items) == { it.path : it \in items }

DiskOf(items) ==
    [ p \in { it.path : it \in items } |-> (CHOOSE it \in items : it.path = p).entry ]

InitProbe ==
    /\ disk = DiskOf({[path |-> SERIES_DIR, entry |-> Dir]} \cup EmptySeries("ep01"))
    /\ cache = <<>>
    /\ session = <<>>
    /\ out = NoRender
    /\ probe = NoProbe

NextProbe ==
    \/ \E p \in PathsOf(ProbeWorld) : EnvCreate(ProbeWorld, p)
    \/ \E p \in PathsOf(ProbeWorld) : EnvRemove(p)
    \/ Probe(ProbeClip)

SpecProbe == InitProbe /\ [][NextProbe]_vars

(***************************************************************************)
(* What is on the disk for the probed clip, said without the prober.       *)
(***************************************************************************)
Range(s) == { s[i] : i \in 1..Len(s) }

ProbeClipDir == Append(series_paths(ProbeSeries).clips, <<ProbeClip>>)

LegacyVideo == Append(series_paths(ProbeSeries).clips, <<ProbeClip, "_clip", ".mp4">>)

FirstFrameThere == Append(series_paths(ProbeSeries).frames, <<ProbeClip, "_first", ".png">>) \in DOMAIN disk

LastFrameThere == Append(series_paths(ProbeSeries).frames, <<ProbeClip, "_last", ".png">>) \in DOMAIN disk

LegacyVideoThere == LegacyVideo \in DOMAIN disk

\* the .mp4 files lying in the clip's prompt_a and prompt_b directories
ModernVideos ==
    { p \in DOMAIN disk :
        /\ Len(p) = Len(ProbeClipDir) + 2
        /\ SubSeq(p, 1, Len(ProbeClipDir)) = ProbeClipDir
        /\ p[Len(p) - 1] \in { <<"prompt_a">>, <<"prompt_b">> }
        /\ p[Len(p)][Len(p[Len(p)])] = ".mp4" }

Probed == probe # NoProbe

\* C1: get_status is 'done' iff at least one video artifact exists, whatever
\* the frames; 'partial' iff there is no video but a first or a last frame;
\* 'todo' otherwise, so with no video and no frame it is always 'todo'.
C1_StatusPolicy ==
    Probed =>
        /\ (probe.status = "done") <=> (ModernVideos # {} \/ LegacyVideoThere)
        /\ (probe.status = "partial") <=>
               (ModernVideos = {} /\ ~LegacyVideoThere /\ (FirstFrameThere \/ LastFrameThere))
        /\ (probe.status = "todo") <=>
               (ModernVideos = {} /\ ~LegacyVideoThere /\ ~FirstFrameThere /\ ~LastFrameThere)

\* a clip with a video and neither frame has been resolved
C1_Witness ==
    /\ Probed
    /\ ModernVideos # {}
    /\ ~FirstFrameThere /\ ~LastFrameThere
    /\ probe.status = "done"

\* the clip is stored in the legacy layout: no per-clip directory
LegacyLayout == ProbeClipDir \notin DOMAIN disk

C7_LegacyFallback ==
    Probed =>
        /\ ModernVideos # {} =>
               /\ LegacyVideo \notin Range(probe.variants.prompt_a) \cup Range(probe.variants.prompt_b)
               /\ Range(probe.variants.prompt_a) \cup Range(probe.variants.prompt_b) = ModernVideos
        /\ (ModernVideos = {} /\ LegacyVideoThere) =>
               /\ probe.variants.prompt_a = <<LegacyVideo>>
               /\ probe.variants.prompt_b = <<>>
        /\ (ModernVideos = {} /\ ~LegacyVideoThere) =>
               /\ probe.variants.prompt_a = <<>>
               /\ probe.variants.prompt_b = <<>>

\* the legacy file exists beside a take in prompt_b and the prober has run
C7_Witness ==
    /\ Probed
    /\ LegacyVideoThere
    /\ ModernVideos # {}
    /\ probe.variants.prompt_a = <<>>
    /\ probe.variants.prompt_b # <<>>

(***************************************************************************)
(* The series on the disk and their catalogs.                              *)
(***************************************************************************)
Clip(clip_id, scene_id, characters, location, veo_duration) ==
    [ clip_id |-> clip_id, scene_id |-> scene_id, characters |-> characters,
      location |-> location, veo_duration |-> veo_duration ]

\* two scenes, a clip with two characters
CatExample ==
    << Clip("S01_A", "S01", <<"Amin", "Papa">>, "Garage", 8),
       Clip("S01_B", "S01", <<"Amin">>, "Garage", 6),
       Clip("S02_A", "S02", <<"Papa">>, "Amin room", 8) >>

\* the clips of a scene not next to each other
CatMixed ==
    << Clip("S01_A", "S01", <<"Papa">>, "Garage", 4),
       Clip("S02_A", "S02", <<"Amin", "Papa">>, "Garage", 8),
       Clip("S01_B", "S01", <<"Amin">>, "Amin room", 6) >>

CatSingle == << Clip("S02_A", "S02", <<"Amin">>, "Garage", 8) >>

\* a file holding the JSON value v
FileWith(v) == [kind |-> "file", data |-> <<v>>]

Meta(name) == [id |-> name, title |-> name]

\* a series directory with its descriptor
ValidSeries(name) ==
    EmptySeries(name)
    \cup { [path |-> Append(SeriesDir(name), <<"meta", ".json">>), entry |-> FileWith(Meta(name))] }

PromptsOf(name) == series_paths(SeriesDir(name)).prompts

NoCache == [series |-> <<>>, clips |-> <<>>]

NoSession == <<>>

(***************************************************************************)
(* Spec: the clips of series ep01 are generated and deleted while the      *)
(* pages are used with every option of the filters.                        *)
(***************************************************************************)
\* the artifacts that come and go: frames, legacy videos and one take
ArtifactWorld ==
    LET sp == series_paths(SeriesDir("ep01"))
    IN  { [path |-> Append(sp.frames, <<"S01_A", "_first", ".png">>), entry |-> File],
          [path |-> Append(sp.frames, <<"S01_A", "_last", ".png">>), entry |-> File],
          [path |-> Append(sp.clips, <<"S01_A", "_clip", ".mp4">>), entry |-> File],
          [path |-> sp.clips \o << <<"S01_B">>, <<"prompt_b">>, TakeName(1) >>, entry |-> File],
          [path |-> Append(sp.clips, <<"S02_A", "_clip", ".mp4">>), entry |-> File] }

\* the per-clip directory of S01_B, ready for its takes
TakeDirs ==
    LET sp == series_paths(SeriesDir("ep01"))
    IN  { [path |-> Append(sp.clips, <<"S01_B">>), entry |-> Dir],
          [path |-> sp.clips \o << <<"S01_B">>, <<"prompt_b">> >>, entry |-> Dir] }

Init ==
    /\ \E cat \in {CatExample, CatMixed} :
         disk = DiskOf({[path |-> SERIES_DIR, entry |-> Dir]}
                       \cup ValidSeries("ep01") \cup TakeDirs
                       \cup {[path |-> PromptsOf("ep01"), entry |-> FileWith(cat)]})
    /\ cache = NoCache
    /\ session = NoSession
    /\ out = NoRender
    /\ probe = NoProbe

Next ==
    \/ \E p \in PathsOf(ArtifactWorld) : EnvCreate(ArtifactWorld, p)
    \/ \E p \in PathsOf(ArtifactWorld) : EnvRemove(p)
    \/ main(Pages, TRUE)

Spec == Init /\ [][Next]_vars

(***************************************************************************)
(* SpecCatalog: the prompts files of two series are written, deleted and   *)
(* replaced while the pages are used with the filters left alone.          *)
(***************************************************************************)
CatalogWorld ==
    { [path |-> PromptsOf(name), entry |-> FileWith(cat)] :
        name \in {"ep01", "ep02"}, cat \in {<<>>, CatExample, CatSingle} }

InitCatalog ==
    /\ disk = DiskOf({[path |-> SERIES_DIR, entry |-> Dir]}
                     \cup ValidSeries("ep01") \cup ValidSeries("ep02"))
    /\ cache = NoCache
    /\ session = NoSession
    /\ out = NoRender
    /\ probe = NoProbe

NextCatalog ==
    \/ \E p \in PathsOf(CatalogWorld) : EnvCreate(CatalogWorld, p)
    \/ \E p \in PathsOf(CatalogWorld) : EnvRemove(p)
    \/ main(Pages, FALSE)

SpecCatalog == InitCatalog /\ [][NextCatalog]_vars

(***************************************************************************)
(* SpecSelect: the files stay as they are; the user goes from series to    *)
(* series and from page to page.                                           *)
(***************************************************************************)
InitSelect ==
    /\ \E files \in SUBSET CatalogWorld :
         /\ \A v, w \in files : v.path = w.path => v = w
         /\ disk = DiskOf({[path |-> SERIES_DIR, entry |-> Dir]}
                          \cup ValidSeries("ep01") \cup ValidSeries("ep02") \cup files)
    /\ cache = NoCache
    /\ session = NoSession
    /\ out = NoRender
    /\ probe = NoProbe

NextSelect == main(Pages, FALSE)

SpecSelect == InitSelect /\ [][NextSelect]_vars

(***************************************************************************)
(* The filters of the clips page.                                          *)
(***************************************************************************)
ClipsRendered == out.page = "Klipy"

\* a is b with some of its elements left out
RECURSIVE IsSubseq(_, _)
IsSubseq(a, b) ==
    IF a = <<>> THEN TRUE
    ELSE IF b = <<>> THEN FALSE
    ELSE IF a[1] = b[1] THEN IsSubseq(Tail(a), Tail(b))
    ELSE IsSubseq(a, Tail(b))

\* how many elements of s satisfy P
HowMany(s, P(_)) == Cardinality({ i \in 1..Len(s) : P(s[i]) })

\* C3: with a scene selected, only clips of that scene are listed, in the
\* order of the loaded catalog; for every selection the list is a
\* subsequence of the catalog and never longer than it.
C3_SceneFilter ==
    ClipsRendered =>
        /\ IsSubseq(out.filtered, out.clips)
        /\ Len(out.filtered) <= Len(out.clips)
        /\ out.sel.scene # ALL =>
               \A i \in 1..Len(out.filtered) : out.filtered[i].scene_id = out.sel.scene

\* scene S01 picked out of a catalog whose S01 clips are not next to each other
C3_Witness ==
    /\ ClipsRendered
    /\ out.clips = CatMixed
    /\ out.sel = [scene |-> "S01", status |-> ALL, char |-> ALL, loc |-> ALL]
    /\ out.filtered = <<CatMixed[1], CatMixed[3]>>

HasCharacter(c, ch) == \E j \in 1..Len(c.characters) : c.characters[j] = ch

\* C4: with a character selected and the other filters on 'all' the list is
\* exactly the catalog clips that list the character, in catalog order; with
\* every filter on 'all' the list is the catalog.
C4_CharacterFilter ==
    ClipsRendered =>
        /\ out.sel = NoFilter => out.filtered = out.clips
        /\ (out.sel.char # ALL /\ out.sel.scene = ALL /\ out.sel.status = ALL /\ out.sel.loc = ALL) =>
               LET listed(c) == HasCharacter(c, out.sel.char)
               IN  /\ IsSubseq(out.filtered, out.clips)
                   /\ \A i \in 1..Len(out.filtered) : listed(out.filtered[i])
                   /\ Len(out.filtered) = HowMany(out.clips, listed)

\* Papa picked: the clip he shares with Amin is listed, the clip of Amin alone is not
C4_Witness ==
    /\ ClipsRendered
    /\ out.clips = CatExample
    /\ out.sel = [scene |-> ALL, status |-> ALL, char |-> "Papa", loc |-> ALL]
    /\ out.filtered = <<CatExample[1], CatExample[3]>>

\* the files of the selected series that are there for a clip
FrameOnDisk(clip_id) ==
    \/ Append(session.series_paths.frames, <<clip_id, "_first", ".png">>) \in DOMAIN disk
    \/ Append(session.series_paths.frames, <<clip_id, "_last", ".png">>) \in DOMAIN disk

VideoOnDisk(clip_id) ==
    \/ Append(session.series_paths.clips, <<clip_id, "_clip", ".mp4">>) \in DOMAIN disk
    \/ \E p \in DOMAIN disk :
         /\ Len(p) = Len(session.series_paths.clips) + 3
         /\ SubSeq(p, 1, Len(p) - 2) = Append(session.series_paths.clips, <<clip_id>>)
         /\ p[Len(p) - 1] \in { <<"prompt_a">>, <<"prompt_b">> }
         /\ p[Len(p)][Len(p[Len(p)])] = ".mp4"

StatusOnDisk(clip_id) ==
    IF VideoOnDisk(clip_id) THEN "done"
    ELSE IF FrameOnDisk(clip_id) THEN "partial"
    ELSE "todo"

StatusLabel(status) ==
    CASE status = "done" -> "Gotovo"
      [] status = "partial" -> "Chastichno"
      [] status = "todo" -> "Ne nachato"

\* of the example's clips only S01_A has files: both frames and a video
OnlyS01AGenerated ==
    /\ out.clips = CatExample
    /\ \A p \in { w.path : w \in ArtifactWorld } :
         p \in DOMAIN disk <=> p[Len(p)][1] = "S01_A"

\* C5: with a status selected and the other filters on 'all' the list is
\* exactly the catalog clips whose status, from the files there at the
\* render, is the selected one, in catalog order; in the example of S01_A,
\* S01_B, S02_A with files for S01_A only, 'done' lists S01_A alone and
\* scene S02 lists S02_A alone.
C5_StatusFilter ==
    ClipsRendered =>
        /\ (out.sel.status # ALL /\ out.sel.scene = ALL /\ out.sel.char = ALL /\ out.sel.loc = ALL) =>
               LET listed(c) == StatusLabel(StatusOnDisk(c.clip_id)) = out.sel.status
               IN  /\ IsSubseq(out.filtered, out.clips)
                   /\ \A i \in 1..Len(out.filtered) : listed(out.filtered[i])
                   /\ Len(out.filtered) = HowMany(out.clips, listed)
        /\ (OnlyS01AGenerated /\ out.sel = [NoFilter EXCEPT !.status = "Gotovo"]) =>
               out.filtered = <<CatExample[1]>>
        /\ (OnlyS01AGenerated /\ out.sel = [NoFilter EXCEPT !.scene = "S02"]) =>
               out.filtered = <<CatExample[3]>>

\* the example: 'done' selected while only S01_A has its frames and its video
C5_Witness ==
    /\ ClipsRendered
    /\ OnlyS01AGenerated
    /\ out.sel = [NoFilter EXCEPT !.status = "Gotovo"]
    /\ out.filtered = <<CatExample[1]>>

(***************************************************************************)
(* The catalog a render works on.                                          *)
(***************************************************************************)
CatalogRendered == out.page \in {"Klipy", "Taimlain"}

\* the prompts file of the series selected last
SelectedPrompts == Append(session.series_meta.dir, <<"prompts", ".json">>)

\* what the prompts file of the selected series holds now
CatalogOnDisk == IF SelectedPrompts \in DOMAIN disk THEN disk[SelectedPrompts].data[1] ELSE <<>>

\* C6 as stated: when no file exists at the path, load_clips returns the
\* empty catalog and the clips or timeline page is rendered over it, with
\* total 0 and progress 0.
C6_MissingFileEmptyCatalog ==
    (CatalogRendered /\ SelectedPrompts \notin DOMAIN disk) =>
        /\ out.clips = <<>>
        /\ out.page = "Klipy" =>
               /\ out.total = 0
               /\ out.progress.num = 0
               /\ out.filtered = <<>>
               /\ out.no_clips_info
        /\ out.page = "Taimlain" => out.rows = <<>>

\* C8: whatever series were selected and pages rendered before, the catalog
\* of a render is the one in the prompts file of the series selected now.
C8_CatalogOfSelectedSeries ==
    CatalogRendered => out.clips = CatalogOnDisk

\* the catalog of another series is memoized and differs from what is rendered
C8_Witness ==
    /\ CatalogRendered
    /\ out.clips # <<>>
    /\ \E k \in DOMAIN cache.clips :
         /\ k # SelectedPrompts
         /\ cache.clips[k] # <<>>
         /\ cache.clips[k] # out.clips

\* C9 as stated: the memo is keyed by path and file identity, so once the
\* prompts file at a path holds other contents than the memoized catalog,
\* the next render shows the contents of the file.
C9_RereadsReplacedFile ==
    (CatalogRendered /\ SelectedPrompts \in DOMAIN disk /\ out.clips # <<>>) =>
        out.clips = CatalogOnDisk

(***************************************************************************)
(* SpecScenario: scenario.txt of series ep01 is written and deleted while  *)
(* the scenario page is used.                                              *)
(***************************************************************************)
\* lines a scenario text may hold
MaxLines == 4

\* some lines of scenario texts
L_GARAGE_NIGHT == <<"G", "A", "R", "A", "G", "E", " ", "N", "I", "G", "H", "T">>

L_PAPA_OFFICE == <<"P", "A", "P", "A", " ", "O", "F", "F", "I", "C", "E">>

L_AMIN_ROOMS == <<"A", "M", "I", "N", " ", "R", "O", "O", "M", "S">>

L_Amin_smiles == <<"A", "m", "i", "n", " ", "s", "m", "i", "l", "e", "s", ".">>

L_SCENE_1 == <<"[ES]", "[TSE]", "[IE]", "[EN]", "[A]", " ", "1">>

L_INT_yard == <<"I", "N", "T", ".", " ", "y", "a", "r", "d">>

L_indented == <<" ", " ", "G", "A", "R", "A", "G", "E", " ", "N", "I", "G", "H", "T">>

\* the lines the scenario texts are made of
LinePool ==
    { L_GARAGE_NIGHT,
      L_PAPA_OFFICE,
      L_AMIN_ROOMS,
      L_Amin_smiles,
      <<>>,
      L_SCENE_1,
      L_INT_yard,
      L_indented }

LineSeqs == UNION { [1..n -> LinePool] : n \in 1..MaxLines }

ScenarioWorld ==
    { [path |-> series_paths(SeriesDir("ep01")).scenario, entry |-> FileWith(join_lines(ls))] :
        ls \in LineSeqs }

InitScenario ==
    /\ disk = DiskOf({[path |-> SERIES_DIR, entry |-> Dir]} \cup ValidSeries("ep01"))
    /\ cache = NoCache
    /\ session = NoSession
    /\ out = NoRender
    /\ probe = NoProbe

NextScenario ==
    \/ \E p \in PathsOf(ScenarioWorld) : EnvCreate(ScenarioWorld, p)
    \/ \E p \in PathsOf(ScenarioWorld) : EnvRemove(p)
    \/ main({"Stsenarii"}, FALSE)

SpecScenario == InitScenario /\ [][NextScenario]_vars

ScenarioRendered == out.page = "Stsenarii" /\ out.found

\* a fully upper-case line longer than ten characters
UpperHeader(line) ==
    /\ Len(line) > 10
    /\ \A i \in 1..Len(line) : line[i] \in UpperLetters \cup {" "}
    /\ line[1] # " " /\ line[Len(line)] # " "

\* a line that is no scene header of any kind
Ordinary(line) ==
    LET t == strip(line)
    IN  \/ t = <<>>
        \/ /\ ~startswith(t, SCENE_KEYWORD)
           /\ ~startswith(t, INT_SLUG)
           /\ ~startswith(t, EXT_SLUG)
           /\ \/ Len(t) <= 10
              \/ (\E i \in 1..Len(t) : t[i] \in LowerLetters)
              \/ (\A j \in 1..Len(t) : t[j] \notin UpperLetters)

\* two scenes, each an upper-case header followed by ordinary lines; the
\* second header is line k
TwoScenes(lines, k) ==
    /\ k \in 2..Len(lines)
    /\ UpperHeader(lines[1])
    /\ UpperHeader(lines[k])
    /\ \A i \in 1..Len(lines) : i \notin {1, k} => Ordinary(lines[i])

\* C10: a two-scene text whose scene headers are fully upper-case lines
\* longer than ten characters is cut into exactly two blocks, each starting
\* with its header line.
C10_TwoSceneText ==
    ScenarioRendered =>
        LET lines == split_lines(out.text)
        IN  \A k \in 2..Len(lines) :
              TwoScenes(lines, k) =>
                  /\ Len(out.blocks) = 2
                  /\ split_lines(out.blocks[1])[1] = lines[1]
                  /\ split_lines(out.blocks[2])[1] = lines[k]
                  /\ out.blocks[1] = join_lines(SubSeq(lines, 1, k - 1))
                  /\ out.blocks[2] = join_lines(SubSeq(lines, k, Len(lines)))

\* two headers, each with a line of its own below it, have been cut
C10_Witness ==
    /\ ScenarioRendered
    /\ split_lines(out.text) = <<L_GARAGE_NIGHT, L_Amin_smiles, L_PAPA_OFFICE, L_AMIN_ROOMS>>
    /\ out.blocks = << join_lines(<<L_GARAGE_NIGHT, L_Amin_smiles>>),
                       join_lines(<<L_PAPA_OFFICE, L_AMIN_ROOMS>>) >>

(***************************************************************************)
(* SpecRobust: the descriptor, the catalog, the scenario and a frame of    *)
(* series ep01 come and go, readable or not, and the catalog may hold clip *)
(* ids that are not of the form S<digits>_<letter>.                        *)
(***************************************************************************)
\* ids of the expected form beside ids without a part, without a number,
\* with a part of two letters and with a lower-case part
CatOddIds ==
    << Clip("S01_A", "S01", <<"Amin">>, "Garage", 8),
       Clip("intro", "S00", <<"Amin">>, "Garage", 4),
       Clip("S03", "S03", <<"Amin">>, "Garage", 6),
       Clip("S03_AB", "S04", <<"Amin">>, "Garage", 6),
       Clip("S12_c", "S12", <<"Amin">>, "Garage", 8) >>

RobustWorld ==
    LET sp == series_paths(SeriesDir("ep01"))
        meta_file == Append(SeriesDir("ep01"), <<"meta", ".json">>)
    IN  { [path |-> meta_file, entry |-> FileWith(Meta("ep01"))],
          [path |-> meta_file, entry |-> File],
          [path |-> meta_file, entry |-> Dir],
          [path |-> sp.prompts, entry |-> FileWith(CatSingle)],
          [path |-> sp.prompts, entry |-> FileWith(CatOddIds)],
          [path |-> sp.prompts, entry |-> File],
          [path |-> sp.scenario, entry |-> FileWith(L_GARAGE_NIGHT)],
          [path |-> Append(sp.frames, <<"intro", "_first", ".png">>), entry |-> File] }

InitRobust ==
    /\ disk = DiskOf({[path |-> SERIES_DIR, entry |-> Dir]} \cup EmptySeries("ep01"))
    /\ cache = NoCache
    /\ session = NoSession
    /\ out = NoRender
    /\ probe = NoProbe

NextRobust ==
    \/ \E p \in PathsOf(RobustWorld) : EnvCreate(RobustWorld, p)
    \/ \E p \in PathsOf(RobustWorld) : EnvRemove(p)
    \/ main(Pages, TRUE)

SpecRobust == InitRobust /\ [][NextRobust]_vars

\* C11 as stated: no render fails; whatever the files and the catalog hold,
\* main and the page functions complete without an exception that halts the
\* page.
C11_NoRenderFails == out.page # "exception"

(***************************************************************************)
(* The status a render shows.                                              *)
(***************************************************************************)
\* the clips of the catalog whose status on the disk is x
OnDiskCount(clips, x) == Cardinality({ i \in 1..Len(clips) : StatusOnDisk(clips[i].clip_id) = x })

\* C12: status is derived, never stored: whatever files were created and
\* deleted between the renders, every status a render shows (sidebar
\* counts, cards, status filter, timeline rows) is the status of the files
\* that exist at that render.
C12_StatusDerived ==
    /\ ClipsRendered =>
          /\ \A i \in 1..Len(out.clips) : out.all_statuses[i] = StatusOnDisk(out.clips[i].clip_id)
          /\ out.done_count = OnDiskCount(out.clips, "done")
          /\ out.partial_count = OnDiskCount(out.clips, "partial")
          /\ \A i \in 1..Len(out.cards) : out.cards[i].status = StatusOnDisk(out.cards[i].clip_id)
          /\ out.sel.status # ALL =>
                \A i \in 1..Len(out.filtered) :
                    StatusLabel(StatusOnDisk(out.filtered[i].clip_id)) = out.sel.status
    /\ out.page = "Taimlain" =>
          \A i \in 1..Len(out.rows) : out.rows[i].status = StatusOnDisk(out.rows[i].clip_id)

\* a render over generated files (none exists when the process starts):
\* S01_A has its last frame only, S01_B nothing, S02_A its video, and the
\* cards show partial, todo, done
C12_Witness ==
    /\ ClipsRendered
    /\ out.sel = NoFilter
    /\ out.clips = CatExample
    /\ Append(session.series_paths.frames, <<"S01_A", "_last", ".png">>) \in DOMAIN disk
    /\ Append(session.series_paths.frames, <<"S01_A", "_first", ".png">>) \notin DOMAIN disk
    /\ ~VideoOnDisk("S01_A")
    /\ VideoOnDisk("S02_A")
    /\ out.cards[1].status = "partial"
    /\ out.cards[2].status = "todo"
    /\ out.cards[3].status = "done"

(***************************************************************************)
(* SpecBoundary: scenario texts made of headers of every kind, of lines    *)
(* that only look like headers and of plain lines.                         *)
(***************************************************************************)
L_EXT_ROAD == <<"E", "X", "T", ".", " ", "R", "O", "A", "D">>

\* the slug in lower case
L_int_lower == <<"i", "n", "t", ".", " ", "y", "a", "r", "d">>

\* eleven characters, none of them a letter
L_digits == <<"1", "2", "3", "4", "5", "6", "7", "8", "9", "0", "1">>

\* the keyword after a tab
L_tab_SCENE == <<"\t">> \o L_SCENE_1

\* the keyword inside the line
L_see_SCENE == <<"s", "e", "e", " ">> \o L_SCENE_1

L_blank == <<" ", " ">>

BoundaryPool ==
    { L_EXT_ROAD, L_int_lower, L_digits, L_tab_SCENE, L_see_SCENE, L_blank,
      L_indented, L_AMIN_ROOMS, <<>> }

BoundaryWorld ==
    { [path |-> series_paths(SeriesDir("ep01")).scenario, entry |-> FileWith(join_lines(ls))] :
        ls \in UNION { [1..n -> BoundaryPool] : n \in 1..MaxLines } }

InitBoundary ==
    /\ disk = DiskOf({[path |-> SERIES_DIR, entry |-> Dir]} \cup ValidSeries("ep01"))
    /\ cache = NoCache
    /\ session = NoSession
    /\ out = NoRender
    /\ probe = NoProbe

NextBoundary ==
    \/ \E p \in PathsOf(BoundaryWorld) : EnvCreate(BoundaryWorld, p)
    \/ \E p \in PathsOf(BoundaryWorld) : EnvRemove(p)
    \/ main({"Stsenarii"}, FALSE)

SpecBoundary == InitBoundary /\ [][NextBoundary]_vars

\* the line between its first and its last character that is no whitespace
Trimmed(line) ==
    LET inked == { i \in 1..Len(line) : line[i] \notin Whitespace }
    IN  IF inked = {} THEN <<>>
        ELSE SubSeq(line, CHOOSE a \in inked : \A i \in inked : a <= i,
                          CHOOSE b \in inked : \A i \in inked : b >= i)

BeginsWith(t, word) ==
    Len(t) >= Len(word) /\ \A i \in 1..Len(word) : t[i] = word[i]

\* the rule of the specification for a line that starts a new block
StartsBlock(line) ==
    LET t == Trimmed(line)
    IN  /\ t # <<>>
        /\ \/ BeginsWith(t, SCENE_KEYWORD)
           \/ BeginsWith(t, INT_SLUG)
           \/ BeginsWith(t, EXT_SLUG)
           \/ /\ Len(t) > 10
              /\ \E i \in 1..Len(t) : t[i] \in UpperLetters
              /\ \A i \in 1..Len(t) : t[i] \notin LowerLetters

\* the lines of a text: the pieces between its newline characters
LinesOf(text) ==
    LET cuts == <<0>> \o SelectSeq([i \in 1..Len(text) |-> IF text[i] = NL THEN i ELSE 0],
                                  LAMBDA x : x # 0) \o <<Len(text) + 1>>
    IN  [ k \in 1..(Len(cuts) - 1) |-> SubSeq(text, cuts[k] + 1, cuts[k + 1] - 1) ]

\* C13: a line starts a new block exactly when its stripped text is not
\* empty and starts with the scene keyword, with INT. or with EXT., or is
\* upper-case and longer than ten characters; every other line goes to the
\* block of the boundary before it; every text is segmented.
C13_BoundaryRule ==
    ScenarioRendered =>
        LET lines == LinesOf(out.text)
            heads == { i \in 1..Len(lines) : i = 1 \/ StartsBlock(lines[i]) }
        IN  /\ Len(out.blocks) = Cardinality(heads)
            /\ \A k \in 1..Len(out.blocks) :
                 \E i \in heads :
                   /\ Cardinality({ h \in heads : h <= i }) = k
                   /\ LET next == { h \in heads : h > i }
                          last == IF next = {} THEN Len(lines)
                                  ELSE (CHOOSE h \in next : \A g \in next : h <= g) - 1
                      IN  LinesOf(out.blocks[k]) = SubSeq(lines, i, last)

\* a text with a header after a tab, then a line that only mentions the
\* keyword and the slug in lower case, then an EXT. header: two blocks
C13_Witness ==
    /\ ScenarioRendered
    /\ LinesOf(out.text) = <<L_tab_SCENE, L_see_SCENE, L_int_lower, L_EXT_ROAD>>
    /\ out.blocks = << L_tab_SCENE \o <<NL>> \o L_see_SCENE \o <<NL>> \o L_int_lower, L_EXT_ROAD >>

(***************************************************************************)
(* The session state.                                                      *)
(***************************************************************************)
\* series_paths holds the four paths below the directory of series_meta
PathsOfSelectedSeries ==
    /\ DOMAIN session.series_paths = {"prompts", "frames", "clips", "scenario"}
    /\ session.series_paths.prompts = session.series_meta.dir \o << <<"prompts", ".json">> >>
    /\ session.series_paths.frames = session.series_meta.dir \o << <<"frames">> >>
    /\ session.series_paths.clips = session.series_meta.dir \o << <<"clips">> >>
    /\ session.series_paths.scenario = session.series_meta.dir \o << <<"scenario", ".txt">> >>

\* a page function has rendered
PageRendered == out.page \in Pages

\* C14: series_meta and series_paths are written only when main selects a
\* series and the page functions only read them: whenever the session
\* changes, a script run has selected a series and rendered its page; a
\* rendered page is that of the series in series_meta; and series_paths is
\* always the path set of the directory of series_meta.
C14_SessionFrame ==
    /\ [](session # NoSession => PathsOfSelectedSeries)
    /\ [](PageRendered => session # NoSession /\ out.series = session.series_meta.id)
    /\ [][ session' # session =>
             /\ disk' = disk
             /\ out'.page \in Pages
             /\ out'.series = session'.series_meta.id
             /\ \E i \in 1..Len(cache'.series[1]) : session'.series_meta = cache'.series[1][i] ]_vars

\* the second series is selected after the catalog of the first was read,
\* and its clips page has been rendered with the paths of ep02
C14_Witness ==
    /\ PageRendered
    /\ out.page = "Klipy"
    /\ out.series = "ep02"
    /\ session.series_meta.dir = SeriesDir("ep02")
    /\ session.series_paths.prompts = PromptsOf("ep02")
    /\ PromptsOf("ep01") \in DOMAIN cache.clips

(***************************************************************************)
(* The four filters together.                                              *)
(***************************************************************************)
FilterNames == {"scene", "status", "char", "loc"}

\* one of the four filters of the page applied to a list
FilterNamed(name, list) ==
    CASE name = "scene"  -> FilterScene(list, out.sel.scene)
      [] name = "status" -> FilterStatus(disk, list, out.sel.status,
                                         session.series_paths.frames, session.series_paths.clips)
      [] name = "char"   -> FilterChar(list, out.sel.char)
      [] name = "loc"    -> FilterLoc(list, out.sel.loc)

\* the four filters applied in every order
FilterOrders == { o \in [1..4 -> FilterNames] : \A i, j \in 1..4 : i # j => o[i] # o[j] }

InOrder(o, list) == FilterNamed(o[4], FilterNamed(o[3], FilterNamed(o[2], FilterNamed(o[1], list))))

\* the clip satisfies every selection that is not 'all'
PassesAll(c) ==
    /\ out.sel.scene # ALL => c.scene_id = out.sel.scene
    /\ out.sel.status # ALL => StatusLabel(StatusOnDisk(c.clip_id)) = out.sel.status
    /\ out.sel.char # ALL => HasCharacter(c, out.sel.char)
    /\ out.sel.loc # ALL => c.location = out.sel.loc

\* C15: the four filters combine as a conjunction and commute: the list
\* shown is the catalog clips, in catalog order, that satisfy every
\* selection that is not 'all'; applying the four filters in any other
\* order gives the same list, and applying them again to the list shown
\* leaves it unchanged.
C15_FiltersConjunction ==
    ClipsRendered =>
        /\ IsSubseq(out.filtered, out.clips)
        /\ \A i \in 1..Len(out.filtered) : PassesAll(out.filtered[i])
        /\ Len(out.filtered) = HowMany(out.clips, PassesAll)
        /\ \A o \in FilterOrders : InOrder(o, out.clips) = out.filtered
        /\ InOrder(<<"scene", "status", "char", "loc">>, out.filtered) = out.filtered

\* all four selections made at once: scene S01, status done, character Amin
\* and location Garage leave S01_B alone, while every one of the four alone
\* lets S01_A through as well
C15_Witness ==
    /\ ClipsRendered
    /\ out.clips = CatExample
    /\ out.sel = [scene |-> "S01", status |-> "Gotovo", char |-> "Amin", loc |-> "Garage"]
    /\ out.filtered = <<CatExample[2]>>
    /\ StatusOnDisk("S02_A") = "done"
====
